---- MODULE Spec2Model ----
(***************************************************************************)
(* Model of the chained hash table of src/chained_table.cpp.               *)
(*                                                                         *)
(* Pointers are small integers, NULL is 0.  The caller owns NumKeyBufs key *)
(* buffers and NumValBufs value buffers (kmem, vmem); a key or value       *)
(* pointer is the index of one of them.  `recs' is the memory that the     *)
(* uninitialised `Record* r' of insert can point into.  A chain (and a     *)
(* Node* cursor into it) is the sequence of the Record addresses from the  *)
(* cursor to the end of the list: <<>> is the NULL cursor, Head is         *)
(* node->data, Tail is node->next.                                         *)
(*                                                                         *)
(* Undefined behaviour (the write through the uninitialised r, the read    *)
(* of ->first through a NULL bucket, % 0, a bucket index out of range) is  *)
(* a choice between a trap (pc = "crashed") and going on with whatever the *)
(* read yields (any junk chain over the record memory).                    *)
(***************************************************************************)
EXTENDS Integers, Sequences, FiniteSets

\* ---- bounds ---------------------------------------------------------------
NumKeyBufs == 2
NumValBufs == 1
NumRecs    == 2
MaxKey     == 1
MaxVal     == 2
MaxN       == 2
MaxSize    == 1
MaxJunk    == 1
MaxCmps    == 2
BigN       == 427

\* ---- program constants ----------------------------------------------------
OutCapacity == 2048
HeaderLen   == 23

NULL     == 0
KeyBufs  == 1..NumKeyBufs
ValBufs  == 1..NumValBufs
RecAddrs == 1..NumRecs
Keys     == 0..MaxKey
Vals     == 1..MaxVal
KeyPtrs  == {NULL} \cup KeyBufs
ValPtrs  == {NULL} \cup ValBufs

VARIABLES
  pc,          \* "start" | "ready" | "search" | "crashed"
  N,           \* table->N
  buckets,     \* table->buckets : [0..N-1 -> LinkedList*]
  fns,         \* table->hash_function, compare, record_formatter
  key_size,    \* table->key_size
  value_size,  \* table->value_size
  recs,        \* Record memory reachable through insert's r
  kmem,        \* caller's key storage
  vmem,        \* caller's value storage
  call,        \* arguments of the call in progress (or of the one that trapped)
  node,        \* search's scan cursor
  cmps,        \* compare calls made by the search in progress
  last         \* last completed call and what it returned

vars == <<pc, N, buckets, fns, key_size, value_size, recs, kmem, vmem,
          call, node, cmps, last>>

config == <<N, fns, key_size, value_size>>
heap   == <<buckets, recs>>
caller == <<kmem, vmem>>
scan   == <<node, cmps>>

\* ---- the caller-supplied capabilities (spec section 8 scenario) -----------
hash_function(k) == kmem[k] % 4

compare(a, b) == kmem[a] - kmem[b]

\* ---- linked list (linked_list.h is not part of src/) -----------------------
\* A LinkedList* is NULL (alloc = FALSE) or a list whose ->first is a chain.
NullList == [alloc |-> FALSE, first |-> <<>>]

add_beginning(list, r) == [list EXCEPT !.first = <<r>> \o @]

remove_n(list, n) ==
  [list EXCEPT !.first =
      [i \in 1..(Len(@) - 1) |-> IF i <= n THEN @[i] ELSE @[i + 1]]]

\* ---- helpers ---------------------------------------------------------------
JunkChains == UNION {[1..n -> RecAddrs] : n \in 0..MaxJunk}

\* a string: the bucket lines it holds and the characters written for it
NoText == [lines |-> <<>>, len |-> 0]

NoCall == [op |-> "none", key |-> NULL, val |-> NULL, ret |-> 0,
           out |-> NoText]

\* table->hash_function(key) % table->N, defined for N >= 1 only
BucketIndex(k) == hash_function(k) % N

\* the bucket expression of the four operations denotes a real list
Defined(k) == N >= 1 /\ buckets[BucketIndex(k)].alloc

\* what `table->buckets[...]->first' can yield
FirstReads(k) ==
  IF Defined(k) THEN {buckets[BucketIndex(k)].first} ELSE JunkChains

Return(op, k, v, r) ==
  /\ pc' = "ready"
  /\ last' = [op |-> op, key |-> k, val |-> v, ret |-> r, out |-> NoText]
  /\ call' = NoCall

Trap(op, k, v) ==
  /\ pc' = "crashed"
  /\ call' = [op |-> op, key |-> k, val |-> v, ret |-> 0, out |-> NoText]
  /\ UNCHANGED last

\* search's locals die when it returns
EndScan == node' = <<>> /\ cmps' = 0

\* ---- create_table ----------------------------------------------------------
Init ==
  /\ pc = "start"
  /\ N = 0
  /\ buckets = <<>>
  /\ fns = [hash_function |-> "none", compare |-> "none",
            record_formatter |-> "none"]
  /\ key_size = 0
  /\ value_size = 0
  /\ recs = [r \in RecAddrs |-> [key |-> NULL, value |-> NULL]]
  /\ kmem \in [KeyBufs -> Keys]
  /\ vmem \in [ValBufs -> Vals]
  /\ call = NoCall
  /\ node = <<>>
  /\ cmps = 0
  /\ last = NoCall

\* create_table with one bucket too few
create_table_short(n, ks, vs) ==
  /\ pc = "start"
  /\ N' = n
  /\ fns' = [hash_function |-> "hash_function", compare |-> "compare",
             record_formatter |-> "record_formatter"]
  /\ key_size' = ks
  /\ value_size' = vs
  /\ buckets' = [i \in 0..(n - 2) |-> NullList]
  /\ pc' = "ready"
  /\ last' = [op |-> "create", key |-> NULL, val |-> NULL, ret |-> 1,
              out |-> NoText]
  /\ UNCHANGED <<recs, caller, call, scan>>

create_table(n, ks, vs) ==
  /\ pc = "start"
  /\ N' = n
  /\ fns' = [hash_function |-> "hash_function", compare |-> "compare",
             record_formatter |-> "record_formatter"]
  /\ key_size' = ks
  /\ value_size' = vs
  /\ buckets' = [i \in 0..(n - 1) |-> NullList]
  /\ pc' = "ready"
  /\ last' = [op |-> "create", key |-> NULL, val |-> NULL, ret |-> 1,
              out |-> NoText]
  /\ UNCHANGED <<recs, caller, call, scan>>

\* ---- insert ----------------------------------------------------------------
\* insert without the test of value
insert_unchecked_value(t, k, v) ==
  /\ pc = "ready"
  /\ UNCHANGED <<config, caller, scan>>
  /\ IF ~t \/ k = NULL
       THEN Return("insert", k, v, 0) /\ UNCHANGED heap
       ELSE \/ Trap("insert", k, v) /\ UNCHANGED heap
            \/ \E r \in RecAddrs :
                 /\ recs' = [recs EXCEPT ![r] = [key |-> k, value |-> v]]
                 /\ IF Defined(k)
                      THEN /\ buckets' = [buckets EXCEPT ![BucketIndex(k)] =
                                             add_beginning(@, r)]
                           /\ Return("insert", k, v, 1)
                      ELSE /\ UNCHANGED buckets
                           /\ \/ Trap("insert", k, v)
                              \/ Return("insert", k, v, 1)

insert(t, k, v) ==
  /\ pc = "ready"
  /\ UNCHANGED <<config, caller, scan>>
  /\ IF ~t \/ k = NULL \/ v = NULL
       THEN Return("insert", k, v, 0) /\ UNCHANGED heap
       ELSE \/ Trap("insert", k, v) /\ UNCHANGED heap
            \/ \E r \in RecAddrs :
                 /\ recs' = [recs EXCEPT ![r] = [key |-> k, value |-> v]]
                 /\ IF Defined(k)
                      THEN /\ buckets' = [buckets EXCEPT ![BucketIndex(k)] =
                                             add_beginning(@, r)]
                           /\ Return("insert", k, v, 1)
                      ELSE /\ UNCHANGED buckets
                           /\ \/ Trap("insert", k, v)
                              \/ Return("insert", k, v, 1)

\* ---- search ----------------------------------------------------------------
search_call(t, k) ==
  /\ pc = "ready"
  /\ UNCHANGED <<config, heap, caller>>
  /\ IF ~t \/ k = NULL
       THEN Return("search", k, NULL, NULL) /\ UNCHANGED scan
       ELSE \/ /\ ~Defined(k)
               /\ Trap("search", k, NULL)
               /\ UNCHANGED scan
            \/ \E first \in FirstReads(k) :
                 /\ node' = first
                 /\ cmps' = 0
                 /\ call' = [op |-> "search", key |-> k, val |-> NULL,
                             ret |-> 0, out |-> NoText]
                 /\ pc' = "search"
                 /\ UNCHANGED last

search_step ==
  /\ pc = "search"
  /\ UNCHANGED <<config, heap, caller>>
  /\ IF node = <<>>
       THEN Return("search", call.key, NULL, NULL) /\ EndScan
       ELSE IF recs[Head(node)].key = NULL
         THEN Trap("search", call.key, NULL) /\ UNCHANGED scan
         ELSE IF compare(call.key, recs[Head(node)].key) = 0
           THEN /\ Return("search", call.key, NULL, recs[Head(node)].value)
                /\ EndScan
           ELSE /\ cmps' = IF cmps < MaxCmps THEN cmps + 1 ELSE cmps
                /\ UNCHANGED <<node, pc, call, last>>

\* ---- replace / remove: the scan they share ---------------------------------
RECURSIVE Scan(_, _, _)
Scan(n, k, count) ==
  IF n = <<>> THEN [st |-> "end", count |-> count, r |-> NULL]
  ELSE IF recs[Head(n)].key = NULL
    THEN [st |-> "trap", count |-> count, r |-> NULL]
  ELSE IF compare(k, recs[Head(n)].key) = 0
    THEN [st |-> "match", count |-> count, r |-> Head(n)]
  ELSE Scan(Tail(n), k, count + 1)

\* replace that stores the key given as well as the value
replace_sets_key(t, k, v) ==
  /\ pc = "ready"
  /\ UNCHANGED <<config, caller, scan, buckets>>
  /\ IF ~t \/ k = NULL \/ v = NULL
       THEN Return("replace", k, v, 0) /\ UNCHANGED recs
       ELSE \/ /\ ~Defined(k)
               /\ Trap("replace", k, v)
               /\ UNCHANGED recs
            \/ \E first \in FirstReads(k) :
                 LET s == Scan(first, k, 0) IN
                   CASE s.st = "trap" ->
                          Trap("replace", k, v) /\ UNCHANGED recs
                     [] s.st = "match" ->
                          /\ recs' = [recs EXCEPT ![s.r] =
                                                [key |-> k, value |-> v]]
                          /\ Return("replace", k, v, 1)
                     [] s.st = "end" ->
                          Return("replace", k, v, 0) /\ UNCHANGED recs

replace(t, k, v) ==
  /\ pc = "ready"
  /\ UNCHANGED <<config, caller, scan, buckets>>
  /\ IF ~t \/ k = NULL \/ v = NULL
       THEN Return("replace", k, v, 0) /\ UNCHANGED recs
       ELSE \/ /\ ~Defined(k)
               /\ Trap("replace", k, v)
               /\ UNCHANGED recs
            \/ \E first \in FirstReads(k) :
                 LET s == Scan(first, k, 0) IN
                   CASE s.st = "trap" ->
                          Trap("replace", k, v) /\ UNCHANGED recs
                     [] s.st = "match" ->
                          /\ recs' = [recs EXCEPT ![s.r].value = v]
                          /\ Return("replace", k, v, 1)
                     [] s.st = "end" ->
                          Return("replace", k, v, 0) /\ UNCHANGED recs

remove(t, k) ==
  /\ pc = "ready"
  /\ UNCHANGED <<config, caller, scan, recs>>
  /\ IF ~t \/ k = NULL
       THEN Return("remove", k, NULL, 0) /\ UNCHANGED buckets
       ELSE \/ /\ ~Defined(k)
               /\ Trap("remove", k, NULL)
               /\ UNCHANGED buckets
            \/ \E first \in FirstReads(k) :
                 LET s == Scan(first, k, 0) IN
                   CASE s.st = "trap" ->
                          Trap("remove", k, NULL) /\ UNCHANGED buckets
                     [] s.st = "match" ->
                          IF Defined(k)
                            THEN /\ buckets' =
                                      [buckets EXCEPT ![BucketIndex(k)] =
                                          remove_n(@, s.count)]
                                 /\ Return("remove", k, NULL, 1)
                            ELSE /\ UNCHANGED buckets
                                 /\ \/ Trap("remove", k, NULL)
                                    \/ Return("remove", k, NULL, 1)
                     [] s.st = "end" ->
                          Return("remove", k, NULL, 0) /\ UNCHANGED buckets

\* ---- table_to_string --------------------------------------------------------
\* get_string (linked_list.h): the formatted records of a list, in chain
\* order, each followed by a blank; a list without entries gives "".
get_string(list) ==
  [text |-> [j \in 1..Len(list.first) |->
               <<kmem[recs[list.first[j]].key],
                 IF recs[list.first[j]].value = NULL THEN 0
                 ELSE vmem[recs[list.first[j]].value]>>],
   len  |-> 4 * Len(list.first)]

\* characters of "%d" for a bucket index
Digits(i) == IF i < 10 THEN 1 ELSE IF i < 100 THEN 2 ELSE 3

\* characters of "\n%d\t%s" for bucket i
LineLen(i) == 1 + Digits(i) + 1 + get_string(buckets[i]).len

\* characters of the lines of buckets lo .. hi
RECURSIVE LinesLen(_, _)
LinesLen(lo, hi) ==
  IF lo > hi THEN 0
  ELSE IF lo = hi THEN LineLen(lo)
  ELSE LinesLen(lo, (lo + hi) \div 2) + LinesLen((lo + hi) \div 2 + 1, hi)

\* characters of the header and of the lines of buckets 0 .. n-1
TextLen(n) == HeaderLen + LinesLen(0, n - 1)

\* the text when every sprintf keeps what `out' held before it
Appended ==
  [lines |-> [j \in 1..N |-> <<j - 1, get_string(buckets[j - 1]).text>>],
   len   |-> TextLen(N)]

\* the text when sprintf, writing into the `out' it is also reading (line 58),
\* loses what `out' held: only the last bucket's line is left
Clobbered ==
  [lines |-> <<<<N - 1, get_string(buckets[N - 1]).text>>>>,
   len   |-> LineLen(N - 1)]

\* table_to_string counting table->N down instead of i up
table_to_string_counts_down ==
  /\ pc = "ready"
  /\ N' = IF N > 0 THEN 0 ELSE N
  /\ UNCHANGED <<fns, key_size, value_size, heap, caller, scan>>
  /\ pc' = "ready"
  /\ call' = NoCall
  /\ last' = [op |-> "to_string", key |-> NULL, val |-> NULL, ret |-> 1,
              out |-> [lines |-> <<>>, len |-> HeaderLen]]

\* table_to_string on the table (a NULL table is not modelled: line 56 reads
\* table->N without a check)
table_to_string ==
  /\ pc = "ready"
  /\ UNCHANGED <<config, heap, caller, scan>>
  /\ IF N <= 0
       THEN /\ pc' = "ready"
            /\ call' = NoCall
            /\ last' = [op |-> "to_string", key |-> NULL, val |-> NULL,
                        ret |-> 1,
                        out |-> [lines |-> <<>>, len |-> HeaderLen]]
       ELSE \/ /\ ~(\A i \in DOMAIN buckets : buckets[i].alloc)
               /\ Trap("to_string", NULL, NULL)
            \/ \E text \in {Appended, Clobbered} :
                 \/ /\ text.len + 1 > OutCapacity
                    /\ Trap("to_string", NULL, NULL)
                 \/ /\ pc' = "ready"
                    /\ call' = NoCall
                    /\ last' = [op |-> "to_string", key |-> NULL,
                                val |-> NULL, ret |-> 1, out |-> text]

\* ---- the caller changes the storage it passed in ---------------------------
caller_write_key(b, x) ==
  /\ pc = "ready"
  /\ kmem[b] # x
  /\ kmem' = [kmem EXCEPT ![b] = x]
  /\ last' = [op |-> "write", key |-> b, val |-> NULL, ret |-> 0,
              out |-> NoText]
  /\ UNCHANGED <<pc, config, heap, vmem, call, scan>>

caller_write_value(b, x) ==
  /\ pc = "ready"
  /\ vmem[b] # x
  /\ vmem' = [vmem EXCEPT ![b] = x]
  /\ last' = [op |-> "write", key |-> NULL, val |-> b, ret |-> 0,
              out |-> NoText]
  /\ UNCHANGED <<pc, config, heap, kmem, call, scan>>

\* ---- specification ---------------------------------------------------------
Next ==
  \/ \E n \in -1..MaxN, ks \in 1..MaxSize, vs \in 1..MaxSize :
       create_table(n, ks, vs)
  \/ \E t \in BOOLEAN, k \in KeyPtrs, v \in ValPtrs : insert(t, k, v)
  \/ \E t \in BOOLEAN, k \in KeyPtrs : search_call(t, k)
  \/ search_step
  \/ \E t \in BOOLEAN, k \in KeyPtrs, v \in ValPtrs : replace(t, k, v)
  \/ \E t \in BOOLEAN, k \in KeyPtrs : remove(t, k)
  \/ table_to_string
  \/ \E b \in KeyBufs, x \in Keys : caller_write_key(b, x)
  \/ \E b \in ValBufs, x \in Vals : caller_write_value(b, x)

Spec == Init /\ [][Next]_vars

\* the same program on tables of BigN - 1 and BigN buckets
NextBig ==
  \/ \E n \in {BigN - 1, BigN}, ks \in 1..MaxSize, vs \in 1..MaxSize :
       create_table(n, ks, vs)
  \/ \E t \in BOOLEAN, k \in KeyPtrs, v \in ValPtrs : insert(t, k, v)
  \/ \E t \in BOOLEAN, k \in KeyPtrs : search_call(t, k)
  \/ search_step
  \/ \E t \in BOOLEAN, k \in KeyPtrs, v \in ValPtrs : replace(t, k, v)
  \/ \E t \in BOOLEAN, k \in KeyPtrs : remove(t, k)
  \/ table_to_string
  \/ \E b \in KeyBufs, x \in Keys : caller_write_key(b, x)
  \/ \E b \in ValBufs, x \in Vals : caller_write_value(b, x)

SpecBig == Init /\ [][NextBig]_vars

TypeOK ==
  /\ pc \in {"start", "ready", "search", "crashed"}
  /\ N \in (-1..MaxN) \cup {BigN - 1, BigN}
  /\ cmps \in 0..MaxCmps
  /\ node \in JunkChains

\* ---- vocabulary of the properties ------------------------------------------
\* the chain of bucket i, as the table holds it (a NULL list holds nothing)
Chain(i) == buckets[i].first

\* positions <<i, j>> of the table at which an entry with a key equal to
\* the key stored at k sits
Places(k) ==
  {p \in UNION {{<<i, j>> : j \in 1..Len(Chain(i))} : i \in DOMAIN buckets} :
     /\ recs[Chain(p[1])[p[2]]].key # NULL
     /\ compare(k, recs[Chain(p[1])[p[2]]].key) = 0}

Present(k) == Places(k) # {}

\* the Records insert has populated
Entries == {r \in RecAddrs : recs[r].key # NULL}

EntriesWithKey(x) == {r \in Entries : kmem[recs[r].key] = x}

\* ---- properties ------------------------------------------------------------
\* C1: on a table with N >= 1, insert(T, k, v) of a key that is not present
\* succeeds, and the search(T, k) that immediately follows it runs to its end
\* and returns v.
C1_RoundTrip ==
  [][ /\ (\E k \in KeyBufs, v \in ValBufs :
             N >= 1 /\ ~Present(k) /\ insert(TRUE, k, v))
           => (pc' = "ready" /\ last'.ret = 1)
      /\ (N >= 1 /\ last.op = "insert" /\ last.ret = 1
             /\ search_call(TRUE, last.key))
           => pc' = "search"
      /\ (N >= 1 /\ last.op = "insert" /\ last.ret = 1
             /\ pc = "search" /\ call.key = last.key /\ search_step
             /\ pc' # "search")
           => (pc' = "ready" /\ last'.ret # NULL
               /\ vmem[last'.ret] = vmem[last.val])
    ]_vars

\* C2: a search makes at most chain_length unsuccessful comparisons, and its
\* cursor moves to the next entry on every iteration that does not return.
C2_SearchAdvances ==
  /\ []((N >= 1 /\ pc = "search") => cmps <= Len(node))
  /\ [][(N >= 1 /\ search_step /\ pc' = "search")
          => node' = Tail(node)]_vars

\* C3: on a freshly created table (N >= 1) search, replace and remove on any
\* key do not crash, report "not found", and leave the table empty.
C3_EmptyTable ==
  [][ (/\ N >= 1
       /\ last.op = "create"
       /\ \/ \E k \in KeyBufs : search_call(TRUE, k)
          \/ search_step
          \/ \E k \in KeyBufs, v \in ValBufs : replace(TRUE, k, v)
          \/ \E k \in KeyBufs : remove(TRUE, k))
        => /\ pc' # "crashed"
           /\ pc' = "ready" => last'.ret = 0
           /\ \A i \in DOMAIN buckets' : buckets'[i].first = <<>>
           /\ recs' = recs
    ]_vars

\* C4: no chain holds two entries with equal keys, and an insert that
\* returns for a key that already has an entry either fails or leaves the
\* number of entries with that key as it was.
C4_UniqueKeys ==
  /\ [](\A i \in DOMAIN buckets : \A j1, j2 \in 1..Len(Chain(i)) :
          (j1 # j2 /\ recs[Chain(i)[j1]].key # NULL
                   /\ recs[Chain(i)[j2]].key # NULL)
            => compare(recs[Chain(i)[j1]].key, recs[Chain(i)[j2]].key) # 0)
  /\ [][ (\E k \in KeyBufs, v \in ValBufs :
            /\ N >= 1
            /\ EntriesWithKey(kmem[k]) # {}
            /\ insert(TRUE, k, v)
            /\ pc' = "ready")
          => \/ last'.ret = 0
             \/ Cardinality({r \in RecAddrs : recs'[r].key # NULL
                               /\ kmem[recs'[r].key] = kmem[last'.key]})
                  = Cardinality(EntriesWithKey(kmem[last'.key]))
       ]_vars

\* C5: every entry of a chain sits in bucket hash(key) mod N, and the entry
\* of a key whose insert has just succeeded sits at exactly one place of the
\* table.
C5_BucketPlacement ==
  (pc = "ready" /\ N >= 1) =>
    /\ \A i \in DOMAIN buckets : \A j \in 1..Len(Chain(i)) :
         recs[Chain(i)[j]].key # NULL
           => BucketIndex(recs[Chain(i)[j]].key) = i
    /\ (last.op = "insert" /\ last.ret = 1)
         => /\ Cardinality(Places(last.key)) = 1
            /\ \A p \in Places(last.key) : p[1] = BucketIndex(last.key)

\* C6: replace(T, k, v2) right after a successful insert(T, k, v1) succeeds
\* and leaves the length of k's chain as it was, and the search(T, k) that
\* follows a successful replace returns v2.
C6_Replace ==
  [][ /\ (\E v2 \in ValBufs :
            /\ N >= 1 /\ last.op = "insert" /\ last.ret = 1
            /\ replace(TRUE, last.key, v2))
          => /\ pc' = "ready"
             /\ last'.ret = 1
             /\ Len(buckets'[BucketIndex(last.key)].first)
                  = Len(buckets[BucketIndex(last.key)].first)
      /\ (N >= 1 /\ last.op = "replace" /\ last.ret = 1
            /\ search_call(TRUE, last.key))
          => pc' = "search"
      /\ (N >= 1 /\ last.op = "replace" /\ last.ret = 1
            /\ pc = "search" /\ call.key = last.key /\ search_step
            /\ pc' # "search")
          => (pc' = "ready" /\ last'.ret = last.val)
    ]_vars

\* C7: right after a successful remove(T, k), search(T, k) runs to its end
\* and returns "not found", and insert(T, k, v) succeeds.
C7_RemoveComplete ==
  [][ (N >= 1 /\ last.op = "remove" /\ last.ret = 1) =>
        /\ search_call(TRUE, last.key) => pc' = "search"
        /\ (pc = "search" /\ call.key = last.key /\ search_step
              /\ pc' # "search")
             => (pc' = "ready" /\ last'.ret = NULL)
        /\ (\E v \in ValBufs : insert(TRUE, last.key, v))
             => (pc' = "ready" /\ last'.ret = 1)
    ]_vars

\* C8: replace and remove with a key that matches no entry of the table
\* return failure and leave every chain and every entry as it was.
C8_NotFoundUnchanged ==
  [][ (\E k \in KeyBufs :
         /\ N >= 1
         /\ ~Present(k)
         /\ \/ \E v \in ValBufs : replace(TRUE, k, v)
            \/ remove(TRUE, k))
       => /\ pc' = "ready"
          /\ last'.ret = 0
          /\ buckets' = buckets
          /\ recs' = recs
    ]_vars

\* C9: a write of the caller to the key or value storage it passed to insert
\* changes neither the key nor the value of any entry.
C9_InsertCopies ==
  [][ (/\ N >= 1
       /\ \/ \E b \in KeyBufs, x \in Keys : caller_write_key(b, x)
          \/ \E b \in ValBufs, x \in Vals : caller_write_value(b, x))
       => \A r \in Entries :
            /\ recs'[r].key # NULL
            /\ kmem'[recs'[r].key] = kmem[recs[r].key]
            /\ (recs[r].value # NULL =>
                  /\ recs'[r].value # NULL
                  /\ vmem'[recs'[r].value] = vmem[recs[r].value])
    ]_vars

\* C10: a table returned by create_table has N >= 1 and exactly N buckets,
\* each of them an empty chain (a list that exists and holds no entry).
C10_Construction ==
  (pc = "ready" /\ last.op = "create") =>
    /\ N >= 1
    /\ DOMAIN buckets = 0..(N - 1)
    /\ \A i \in DOMAIN buckets :
         buckets[i].alloc /\ buckets[i].first = <<>>

\* C11: insert or replace with an absent table, key or value, and remove or
\* search with an absent table or key, return failure (search: NULL) and
\* leave the table, the caller's storage and the process as they were.
C11_AbsentArguments ==
  [][ (/\ pc = "ready"
       /\ LET k == IF pc' = "ready" THEN last'.key ELSE call'.key
              v == IF pc' = "ready" THEN last'.val ELSE call'.val
          IN \E t \in BOOLEAN :
               \/ /\ ~t \/ k = NULL \/ v = NULL
                  /\ insert(t, k, v) \/ replace(t, k, v)
               \/ /\ ~t \/ k = NULL
                  /\ remove(t, k) \/ search_call(t, k))
       => /\ pc' = "ready"
          /\ last'.ret = 0
          /\ UNCHANGED <<config, heap, caller, scan>>
    ]_vars

C11_Witness ==
  /\ pc = "ready"
  /\ N >= 1
  /\ last.op = "insert"
  /\ last.key # NULL
  /\ last.val = NULL
  /\ last.ret = 0
  /\ Entries # {}

\* C12: table_to_string on a table with N >= 1 returns a text with one line
\* per bucket index 0..N-1, each listing its chain's entries in chain order
\* (nothing for a bucket without entries), and leaves the table unchanged.
C12_ToStringTotal ==
  [][ (N >= 1 /\ table_to_string)
       => /\ pc' = "ready"
          /\ last'.out.lines =
               [j \in 1..N |-> <<j - 1, get_string(buckets[j - 1]).text>>]
          /\ UNCHANGED <<config, heap>>
    ]_vars

\* C13: an insert of a new key that returns true makes the chain at
\* hash(key) mod N one entry longer, the chain without the new entry being
\* the chain as it was, and changes no other chain and no other entry.
C13_InsertEffect ==
  [][ (\E k \in KeyBufs, v \in ValBufs :
         /\ N >= 1 /\ ~Present(k)
         /\ insert(TRUE, k, v)
         /\ pc' = "ready" /\ last'.ret = 1)
       => LET i == BucketIndex(last'.key) IN
          /\ Len(buckets'[i].first) = Len(buckets[i].first) + 1
          /\ \E p \in 1..Len(buckets'[i].first) :
               remove_n(buckets'[i], p - 1).first = buckets[i].first
          /\ \A j \in DOMAIN buckets \ {i} : buckets'[j] = buckets[j]
          /\ \A r \in Entries : recs'[r] = recs[r]
    ]_vars

\* C14: a remove that returns true makes the chain of the key one entry
\* shorter, the entry taken out having a key equal to the one given, and
\* changes no other chain and no entry.
C14_RemoveEffect ==
  [][ (\E k \in KeyBufs :
         /\ N >= 1
         /\ remove(TRUE, k)
         /\ pc' = "ready" /\ last'.ret = 1)
       => LET i == BucketIndex(last'.key) IN
          /\ Len(buckets'[i].first) = Len(buckets[i].first) - 1
          /\ \E p \in 1..Len(buckets[i].first) :
               /\ recs[buckets[i].first[p]].key # NULL
               /\ compare(last'.key, recs[buckets[i].first[p]].key) = 0
               /\ buckets'[i] = remove_n(buckets[i], p - 1)
          /\ \A j \in DOMAIN buckets \ {i} : buckets'[j] = buckets[j]
          /\ recs' = recs
    ]_vars

C16_HeadInsert ==
  [][ (\E k \in KeyBufs, v \in ValBufs :
         /\ N >= 1
         /\ last.op = "insert" /\ last.ret = 1
         /\ compare(k, last.key) # 0
         /\ BucketIndex(k) = BucketIndex(last.key)
         /\ insert(TRUE, k, v)
         /\ pc' = "ready" /\ last'.ret = 1)
       => LET c == buckets'[BucketIndex(last.key)].first IN
          /\ Len(c) >= 2
          /\ recs'[c[1]].key = last'.key
          /\ recs'[c[2]].key = last.key
          /\ Tail(c) = buckets[BucketIndex(last.key)].first
    ]_vars

\* C17: once the table is created no step changes N, the number of buckets,
\* the three functions, key_size or value_size, and an N > 0 stays > 0.
C17_FixedConfig ==
  [][ pc # "start"
       => /\ UNCHANGED config
          /\ DOMAIN buckets' = DOMAIN buckets
          /\ N > 0 => N' > 0
    ]_vars

C17_Witness ==
  /\ pc = "ready"
  /\ N >= 2
  /\ last.op = "to_string"
  /\ Entries # {}
  /\ fns.hash_function = "hash_function"
  /\ key_size >= 1

\* C18: the text table_to_string returns, with its terminating NUL, never
\* takes more than the capacity of the buffer it was written into.
C18_NoOverflow ==
  (pc = "ready" /\ last.op = "to_string")
    => last.out.len + 1 <= OutCapacity

\* C19: right after a search(T, k) that returned a value, replace(T, k, v)
\* succeeds and changes the entry whose value the search returned, and
\* remove(T, k) succeeds.
C19_SameEntry ==
  [][ (N >= 1 /\ pc = "ready" /\ last.op = "search" /\ last.ret # NULL)
       => /\ (\E v \in ValBufs : replace(TRUE, last.key, v))
               => /\ pc' = "ready"
                  /\ last'.ret = 1
                  /\ \E r \in Entries :
                       /\ recs[r].value = last.ret
                       /\ compare(last.key, recs[r].key) = 0
                       /\ recs' = [recs EXCEPT ![r].value = last'.val]
          /\ remove(TRUE, last.key)
               => (pc' = "ready" /\ last'.ret = 1)
    ]_vars

\* C20: on a table with N >= 1 the bucket index of every key lies in
\* [0, N) and is the index of a bucket of the table.
C20_IndexInRange ==
  (pc \in {"ready", "search"} /\ N >= 1)
    => \A k \in KeyBufs :
         /\ BucketIndex(k) \in 0..(N - 1)
         /\ BucketIndex(k) \in DOMAIN buckets

C20_Witness ==
  /\ pc = "ready"
  /\ N >= 2
  /\ last.op = "insert"
  /\ last.ret = 1
  /\ BucketIndex(last.key) = N - 1
====
